---- MODULE Spec2Model ----
(***************************************************************************)
(* Model of the FlightVars domain worker (src/src/domain/worker.rs):       *)
(* a worker thread running Worker::run over a notification channel, the   *)
(* WorkerStub that owns the thread, and the Consumers that push commands.  *)
(***************************************************************************)
EXTENDS Integers, Sequences, FiniteSets, TLC

\* ------------------------------------------------------------------ bounds
MaxPush == 3          \* number of Consumer::consume calls explored
MaxConsumers == 2     \* number of Consumer handles alive at once

MaxQueue == 2         \* commands a never-ending producer keeps queued at most
Producers == {"p1", "p2"}     \* producer threads

VARIABLES
  queue,          \* envelopes in the channel, head first
  rxAlive,        \* the Worker (its rx and its own tx) has not been dropped
  run,            \* Worker.run
  pc,             \* position of the worker thread
  res,            \* the value recv_timeout returned to the loop
  stub,           \* WorkerStub: "alive", "joining", "consumed", "dropped", "aborted"
  child,          \* the JoinHandle: "joinable", "joined", "detached"
  consumers,      \* live Consumer handles
  diag,           \* error! diagnostics logged by WorkerStub::shutdown
  pushes,         \* history of consume calls: who, what, result
  log,            \* history of handler.command invocations
  polls,          \* handler.poll invocations so far: 0, 1, or 2 for two or more
  nEnq,           \* number of envelopes ever enqueued
  recvBegan,      \* nEnq when the current recv_timeout began, 0 outside it
  stopped,        \* the loop of the current run call has received a Shutdown envelope
  ahead,          \* envelopes queued ahead of the Shutdown when it was sent, -1 before
  shutdownId,     \* arrival number of the Shutdown envelope, 0 before
  itersAfter,     \* loop iterations begun after the Shutdown was enqueued
  shutdownCalls,  \* number of WorkerStub::shutdown calls begun
  joins,          \* number of child.join() calls completed
  runs            \* number of Worker::run calls begun

vars == << queue, rxAlive, run, pc, res, stub, child, consumers, diag, pushes,
           log, polls, nEnq, recvBegan, stopped, ahead, shutdownId,
           itersAfter, shutdownCalls, joins, runs >>

\* ------------------------------------------------------------- envelopes
Cmd(c, n) == [kind |-> "Cmd", cmd |-> c, id |-> n]
Shutdown(n) == [kind |-> "Shutdown", cmd |-> 0, id |-> n]
RecvNone == [kind |-> "None", cmd |-> 0, id |-> 0]
RecvErr == [kind |-> "Closed", cmd |-> 0, id |-> 0]
NoRes == [kind |-> "Empty", cmd |-> 0, id |-> 0]

Min(a, b) == IF a < b THEN a ELSE b

\* --------------------------------------------------- notification channel
\* Faulty variant of LiveSenders: the Worker keeps no sending half of its own
\* (Worker { rx, run }, the only sender moved into the stub).
LiveSenders_withoutWorkerTx ==
  (IF stub \in {"alive", "joining"} THEN 1 ELSE 0)
  + Cardinality(consumers)

\* Live sending halves: the Worker's own tx, the stub's sender, the Consumers'.
LiveSenders ==
  (IF rxAlive THEN 1 ELSE 0)
  + (IF stub \in {"alive", "joining"} THEN 1 ELSE 0)
  + Cardinality(consumers)

\* NotifySender::send succeeds while the receiver exists.
send_ok == rxAlive

\* The queue after NotifySender::send(e).
send_queue(e) == IF rxAlive THEN Append(queue, e) ELSE queue

\* Faulty variant of recv_timeout: the receiver takes the newest message first.
recv_timeout_newest ==
  IF queue # << >>
    THEN << queue[Len(queue)], SubSeq(queue, 1, Len(queue) - 1) >>
  ELSE IF LiveSenders = 0 THEN << RecvErr, queue >>
  ELSE << RecvNone, queue >>

\* NotifyReceiver::recv_timeout: the oldest message, or no message before the
\* timeout, or the channel is closed; paired with the queue it leaves.
recv_timeout ==
  IF queue # << >> THEN << Head(queue), Tail(queue) >>
  ELSE IF LiveSenders = 0 THEN << RecvErr, queue >>
  ELSE << RecvNone, queue >>

\* ------------------------------------------------------------------ Init
\* Worker::new
Worker_new ==
  /\ queue = << >>
  /\ rxAlive = TRUE
  /\ run = TRUE

\* The state when spawn_worker has returned the stub: the thread is spawned
\* and has not yet called H::new().
spawn_worker ==
  /\ Worker_new
  /\ pc = "spawned"
  /\ res = NoRes
  /\ stub = "alive"
  /\ child = "joinable"
  /\ consumers = {}

Init ==
  /\ spawn_worker
  /\ diag = {}
  /\ pushes = << >>
  /\ log = << >>
  /\ polls = 0
  /\ nEnq = 0
  /\ recvBegan = 0
  /\ stopped = FALSE
  /\ ahead = -1
  /\ shutdownId = 0
  /\ itersAfter = 0
  /\ shutdownCalls = 0
  /\ joins = 0
  /\ runs = 0

\* ---------------------------------------------------------- worker thread
workerVars == << queue, rxAlive, run, pc, res, log, polls, recvBegan, stopped,
                 itersAfter, runs >>
ownerVars == << stub, child, consumers, diag, pushes, nEnq, ahead, shutdownId,
                shutdownCalls, joins >>

\* let mut handler = H::new(); the constructor returns.
ThreadStart ==
  /\ pc = "spawned"
  /\ pc' = "run"
  /\ UNCHANGED << queue, rxAlive, run, res, log, polls, recvBegan, stopped,
                  itersAfter, runs >>
  /\ UNCHANGED ownerVars

\* H::new() panics: the thread unwinds.
HNewPanic ==
  /\ pc = "spawned"
  /\ pc' = "unwinding"
  /\ UNCHANGED << queue, rxAlive, run, res, log, polls, recvBegan, stopped,
                  itersAfter, runs >>
  /\ UNCHANGED ownerVars

\* Faulty variant of RunEntry: run begins by draining whatever was sent
\* before the loop started.
RunEntry_discards ==
  /\ pc = "run"
  /\ run' = TRUE
  /\ pc' = "while"
  /\ stopped' = FALSE
  /\ runs' = runs + 1
  /\ queue' = << >>
  /\ UNCHANGED << rxAlive, res, log, polls, recvBegan, itersAfter >>
  /\ UNCHANGED ownerVars

\* Faulty variant of RunEntry: run does not set the flag, it loops on the
\* value it finds.
RunEntry_keepsFlag ==
  /\ pc = "run"
  /\ run' = run
  /\ pc' = "while"
  /\ stopped' = FALSE
  /\ runs' = runs + 1
  /\ UNCHANGED << queue, rxAlive, res, log, polls, recvBegan, itersAfter >>
  /\ UNCHANGED ownerVars

\* Worker::run, entry: self.run = true.
RunEntry ==
  /\ pc = "run"
  /\ run' = TRUE
  /\ pc' = "while"
  /\ stopped' = FALSE
  /\ runs' = runs + 1
  /\ UNCHANGED << queue, rxAlive, res, log, polls, recvBegan, itersAfter >>
  /\ UNCHANGED ownerVars

\* Faulty variant of WhileCheck: the loop never tests self.run (loop { ... }).
WhileCheck_ignoresRun ==
  /\ pc = "while"
  /\ pc' = "recv"
  /\ recvBegan' = nEnq
  /\ itersAfter' = IF ahead >= 0
                     THEN Min(itersAfter + 1, MaxPush + 3)
                     ELSE itersAfter
  /\ UNCHANGED << queue, rxAlive, run, res, log, polls, stopped, runs >>
  /\ UNCHANGED ownerVars

\* while self.run { ... }: the loop condition; a true condition begins
\* recv_timeout, a false one returns from run.
WhileCheck ==
  /\ pc = "while"
  /\ IF run
       THEN /\ pc' = "recv"
            /\ recvBegan' = nEnq
            /\ itersAfter' = IF ahead >= 0
                               THEN Min(itersAfter + 1, MaxPush + 3)
                               ELSE itersAfter
       ELSE /\ pc' = "returned"
            /\ UNCHANGED << recvBegan, itersAfter >>
  /\ UNCHANGED << queue, rxAlive, run, res, log, polls, stopped, runs >>
  /\ UNCHANGED ownerVars

\* self.rx.recv_timeout(timeout) returns.
Recv ==
  /\ pc = "recv"
  /\ res' = recv_timeout[1]
  /\ queue' = recv_timeout[2]
  /\ pc' = "match"
  /\ UNCHANGED << rxAlive, run, log, polls, recvBegan, stopped, itersAfter, runs >>
  /\ UNCHANGED ownerVars

\* Faulty variant of Worker_shutdown: the flag is left as it was.
Worker_shutdown_noop == run' = run

\* Worker::shutdown
Worker_shutdown == run' = FALSE

\* Faulty variant of OnShutdown: the arm is empty, the envelope is swallowed.
OnShutdown_ignored ==
  /\ stopped' = TRUE
  /\ pc' = "while"
  /\ recvBegan' = 0
  /\ UNCHANGED << run, log, polls >>

\* Ok(Some(Envelope::Shutdown)) => self.shutdown()
OnShutdown ==
  /\ Worker_shutdown
  /\ stopped' = TRUE
  /\ pc' = "while"
  /\ recvBegan' = 0
  /\ UNCHANGED << log, polls >>

\* Faulty variant of handler_command: the Cmd arm drops the command without calling
\* the handler.
handler_command_dropped(e) == log

\* The handler.command(cmd) invocation, as the handler observes it.
handler_command(e) == Append(log, [cmd |-> e.cmd, id |-> e.id])

\* Faulty variant of OnCmd: the arm also ticks, { handler.command(cmd); handler.poll() }.
OnCmd_pollsToo ==
  /\ log' = handler_command(res)
  /\ polls' = Min(polls + 1, 2)
  /\ pc' = "poll"
  /\ UNCHANGED << run, stopped, recvBegan >>

\* Ok(Some(Envelope::Cmd(cmd))) => handler.command(cmd)
OnCmd ==
  /\ log' = handler_command(res)
  /\ pc' = "command"
  /\ recvBegan' = 0
  /\ UNCHANGED << run, stopped, polls >>

\* Faulty variant of OnTimeout: the timeout arm is empty, Ok(None) => {}.
OnTimeout_noPoll ==
  /\ pc' = "while"
  /\ recvBegan' = 0
  /\ UNCHANGED << run, stopped, log, polls >>

\* Faulty variant of OnTimeout: an idle timeout ends the loop,
\* Ok(None) => self.shutdown().
OnTimeout_stops ==
  /\ run' = FALSE
  /\ pc' = "while"
  /\ recvBegan' = 0
  /\ UNCHANGED << stopped, log, polls >>

\* Ok(None) => handler.poll()
OnTimeout ==
  /\ polls' = Min(polls + 1, 2)
  /\ pc' = "poll"
  /\ UNCHANGED << run, stopped, log, recvBegan >>

\* _ => {}
OnError ==
  /\ pc' = "while"
  /\ recvBegan' = 0
  /\ UNCHANGED << run, stopped, log, polls >>

\* The match of Worker::run: one arm per value of recv_timeout.
Dispatch ==
  /\ pc = "match"
  /\ res' = NoRes
  /\ CASE res.kind = "Shutdown" -> OnShutdown
       [] res.kind = "Cmd" -> OnCmd
       [] res.kind = "None" -> OnTimeout
       [] OTHER -> OnError
  /\ UNCHANGED << queue, rxAlive, itersAfter, runs >>
  /\ UNCHANGED ownerVars

\* handler.command(cmd) or handler.poll() returns.
HandlerReturn ==
  /\ pc \in {"command", "poll"}
  /\ pc' = "while"
  /\ recvBegan' = 0
  /\ UNCHANGED << queue, rxAlive, run, res, log, polls, stopped, itersAfter, runs >>
  /\ UNCHANGED ownerVars

\* handler.command(cmd) or handler.poll() panics: the thread unwinds.
HandlerPanic ==
  /\ pc \in {"command", "poll"}
  /\ pc' = "unwinding"
  /\ recvBegan' = 0
  /\ UNCHANGED << queue, rxAlive, run, res, log, polls, stopped, itersAfter, runs >>
  /\ UNCHANGED ownerVars

\* The closure ends (returning or unwinding): the Worker it owns is dropped.
ThreadDrop ==
  /\ pc \in {"returned", "unwinding"}
  /\ rxAlive
  /\ rxAlive' = FALSE
  /\ UNCHANGED << queue, run, pc, res, log, polls, recvBegan, stopped,
                  itersAfter, runs >>
  /\ UNCHANGED ownerVars

\* The thread terminates and becomes joinable.
ThreadEnd ==
  /\ pc \in {"returned", "unwinding"}
  /\ ~rxAlive
  /\ pc' = IF pc = "returned" THEN "finished" ELSE "panicked"
  /\ UNCHANGED << queue, rxAlive, run, res, log, polls, recvBegan, stopped,
                  itersAfter, runs >>
  /\ UNCHANGED ownerVars

\* ------------------------------------------------------- owner, producers
FreeIds == (1..MaxConsumers) \ consumers
NewId == CHOOSE k \in FreeIds : \A j \in FreeIds : k <= j

\* WorkerStub::consumer
StubConsumer ==
  /\ stub = "alive"
  /\ FreeIds # {}
  /\ consumers' = consumers \cup {NewId}
  /\ UNCHANGED << stub, child, diag, pushes, nEnq, ahead, shutdownId,
                  shutdownCalls, joins >>
  /\ UNCHANGED workerVars

\* Consumer::clone
ConsumerClone(k) ==
  /\ k \in consumers
  /\ FreeIds # {}
  /\ consumers' = consumers \cup {NewId}
  /\ UNCHANGED << stub, child, diag, pushes, nEnq, ahead, shutdownId,
                  shutdownCalls, joins >>
  /\ UNCHANGED workerVars

\* Faulty variant of ConsumerDrop: dropping a Consumer tells the worker to
\* stop (a Drop impl that sends Envelope::Shutdown).
ConsumerDrop_sendsShutdown(k) ==
  /\ k \in consumers
  /\ consumers' = consumers \ {k}
  /\ queue' = send_queue(Shutdown(nEnq + 1))
  /\ nEnq' = IF send_ok THEN nEnq + 1 ELSE nEnq
  /\ UNCHANGED << stub, child, diag, pushes, ahead, shutdownId,
                  shutdownCalls, joins >>
  /\ UNCHANGED << rxAlive, run, pc, res, log, polls, recvBegan, stopped,
                  itersAfter, runs >>

\* A Consumer is dropped.
ConsumerDrop(k) ==
  /\ k \in consumers
  /\ consumers' = consumers \ {k}
  /\ UNCHANGED << stub, child, diag, pushes, nEnq, ahead, shutdownId,
                  shutdownCalls, joins >>
  /\ UNCHANGED workerVars

\* Faulty variant of consume_result: the send result is discarded,
\* let _ = self.sender.send(..); Ok(()).
consume_result_ignored == TRUE

\* Faulty variant of consume_result: consume also reports an error when the
\* channel already holds a message (try_send on a queue of capacity one).
consume_result_spurious == send_ok /\ queue = << >>

\* The result Consumer::consume returns: that of sender.send, unchanged.
consume_result == send_ok

\* The Command of the n-th consume call. The worker never inspects a Command,
\* so the calls are given pairwise different values.
Command(n) == n

\* Faulty variant of Consume: the producer thread runs handler.command itself
\* instead of sending the command to the worker thread.
Consume_inline(p, k) ==
  /\ k \in consumers
  /\ Len(pushes) < MaxPush
  /\ log' = handler_command(Cmd(Command(Len(pushes) + 1), nEnq + 1))
  /\ nEnq' = nEnq + 1
  /\ pushes' = Append(pushes, [by |-> p, cmd |-> Command(Len(pushes) + 1),
                               ok |-> TRUE, id |-> nEnq + 1])
  /\ UNCHANGED << queue, rxAlive, run, pc, res, polls, recvBegan, stopped,
                  itersAfter, runs >>
  /\ UNCHANGED << stub, child, consumers, diag, ahead, shutdownId,
                  shutdownCalls, joins >>

\* Consumer::consume(cmd), called by producer p on Consumer k.
Consume(p, k) ==
  /\ k \in consumers
  /\ Len(pushes) < MaxPush
  /\ queue' = send_queue(Cmd(Command(Len(pushes) + 1), nEnq + 1))
  /\ nEnq' = IF send_ok THEN nEnq + 1 ELSE nEnq
  /\ pushes' = Append(pushes, [by |-> p, cmd |-> Command(Len(pushes) + 1),
                               ok |-> consume_result,
                               id |-> IF send_ok THEN nEnq + 1 ELSE 0])
  /\ UNCHANGED << rxAlive, run, pc, res, log, polls, recvBegan, stopped,
                  itersAfter, runs >>
  /\ UNCHANGED << stub, child, consumers, diag, ahead, shutdownId,
                  shutdownCalls, joins >>

\* Faulty variant of shutdown_after_send: a failed send ends shutdown (unwrap, or an
\* early return) before the join.
shutdown_after_send_aborts == "aborted"

\* What WorkerStub::shutdown does after the send: an error is logged and the
\* sequence goes on to the join.
shutdown_after_send == "joining"

\* Faulty variant of StubShutdownSend: shutdown clears the worker's run flag
\* directly (a shared flag) instead of sending an envelope.
StubShutdownSend_setsFlag ==
  /\ stub = "alive"
  /\ shutdownCalls' = shutdownCalls + 1
  /\ run' = FALSE
  /\ diag' = diag
  /\ stub' = "joining"
  /\ UNCHANGED << queue, rxAlive, pc, res, log, polls, recvBegan, stopped,
                  itersAfter, runs >>
  /\ UNCHANGED << child, consumers, pushes, joins, nEnq, ahead, shutdownId >>

\* WorkerStub::shutdown, first half: self.sender.send(Envelope::Shutdown).
StubShutdownSend ==
  /\ stub = "alive"
  /\ shutdownCalls' = shutdownCalls + 1
  /\ queue' = send_queue(Shutdown(nEnq + 1))
  /\ nEnq' = IF send_ok THEN nEnq + 1 ELSE nEnq
  /\ ahead' = IF send_ok /\ ahead < 0 THEN Len(queue) ELSE ahead
  /\ shutdownId' = IF send_ok /\ shutdownId = 0 THEN nEnq + 1 ELSE shutdownId
  /\ diag' = IF send_ok THEN diag ELSE diag \cup {"send"}
  /\ stub' = IF send_ok THEN "joining" ELSE shutdown_after_send
  /\ UNCHANGED << rxAlive, run, pc, res, log, polls, recvBegan, stopped,
                  itersAfter, runs >>
  /\ UNCHANGED << child, consumers, pushes, joins >>

\* Faulty variant of join_ready: shutdown does not wait for the thread.
join_ready_always == TRUE

\* child.join() can return: the thread has terminated.
join_ready == pc \in {"finished", "panicked"}

\* Faulty variant of stub_after_shutdown: shutdown(&self) leaves the stub usable.
stub_after_shutdown_usable == "alive"

\* The stub after WorkerStub::shutdown returns: moved, gone.
stub_after_shutdown == "consumed"

\* WorkerStub::shutdown, second half: self.child.join(), then return.
StubShutdownJoin ==
  /\ stub = "joining"
  /\ join_ready
  /\ child' = "joined"
  /\ joins' = joins + 1
  /\ diag' = IF pc = "panicked" THEN diag \cup {"join"} ELSE diag
  /\ stub' = stub_after_shutdown
  /\ UNCHANGED << consumers, pushes, nEnq, ahead, shutdownId, shutdownCalls >>
  /\ UNCHANGED workerVars

\* The WorkerStub is dropped without shutdown: the thread is detached.
StubDrop ==
  /\ stub = "alive"
  /\ stub' = "dropped"
  /\ child' = "detached"
  /\ UNCHANGED << consumers, diag, pushes, nEnq, ahead, shutdownId,
                  shutdownCalls, joins >>
  /\ UNCHANGED workerVars

\* -------------------------------------------------------- specifications
WorkerStep ==
  \/ ThreadStart
  \/ RunEntry
  \/ WhileCheck
  \/ Recv
  \/ Dispatch
  \/ HandlerReturn
  \/ ThreadDrop
  \/ ThreadEnd

OwnerStep ==
  \/ StubConsumer
  \/ \E k \in 1..MaxConsumers : ConsumerClone(k)
  \/ \E k \in 1..MaxConsumers : ConsumerDrop(k)
  \/ \E p \in Producers, k \in 1..MaxConsumers : Consume(p, k)
  \/ StubShutdownSend
  \/ StubShutdownJoin
  \/ StubDrop

Next ==
  \/ WorkerStep
  \/ OwnerStep
  \/ HNewPanic
  \/ HandlerPanic

Spec == Init /\ [][Next]_vars

\* Handler calls may panic; the worker thread and the thread inside
\* WorkerStub::shutdown are scheduled fairly.
FairSpec ==
  Init /\ [][Next]_vars /\ WF_vars(WorkerStep) /\ WF_vars(StubShutdownJoin)

\* Every handler call returns and the worker thread is scheduled fairly.
NextLive ==
  \/ WorkerStep
  \/ OwnerStep

LiveSpec == Init /\ [][NextLive]_vars /\ WF_vars(WorkerStep)

\* The thread that owns the Worker calls Worker::run again after a call
\* returned (run takes &mut self, the Worker outlives the call).
RunAgain ==
  /\ pc = "returned"
  /\ rxAlive
  /\ pc' = "run"
  /\ UNCHANGED << queue, rxAlive, run, res, log, polls, recvBegan, stopped,
                  itersAfter, runs >>
  /\ UNCHANGED ownerVars

\* The thread that owns the Worker calls Worker::shutdown() before
\* Worker::run.
ShutdownBeforeRun ==
  /\ pc = "run"
  /\ run
  /\ Worker_shutdown
  /\ UNCHANGED << queue, rxAlive, pc, res, log, polls, recvBegan, stopped,
                  itersAfter, runs >>
  /\ UNCHANGED ownerVars

\* A Worker driven through its public methods: run may be called again and
\* shutdown may be called outside the loop.
RestartNext ==
  \/ Next
  \/ RunAgain
  \/ ShutdownBeforeRun

RestartSpec == Init /\ [][RestartNext]_vars

\* Consumer::consume(cmd) on Consumer k by a producer that never stops
\* pushing; the histories do not record these calls.
ConsumeStream(k) ==
  /\ k \in consumers
  /\ Len(queue) < MaxQueue
  /\ queue' = send_queue(Cmd(0, 0))
  /\ UNCHANGED << rxAlive, run, pc, res, log, polls, recvBegan, stopped,
                  itersAfter, runs >>
  /\ UNCHANGED ownerVars

\* Ok(Some(Envelope::Cmd(cmd))) => handler.command(cmd), the invocation not
\* recorded in the history.
OnCmdStream ==
  /\ pc' = "command"
  /\ recvBegan' = 0
  /\ UNCHANGED << run, stopped, log, polls >>

\* The match of Worker::run, for commands of a never-ending producer.
DispatchStream ==
  /\ pc = "match"
  /\ res' = NoRes
  /\ CASE res.kind = "Shutdown" -> OnShutdown
       [] res.kind = "Cmd" -> OnCmdStream
       [] res.kind = "None" -> OnTimeout
       [] OTHER -> OnError
  /\ UNCHANGED << queue, rxAlive, itersAfter, runs >>
  /\ UNCHANGED ownerVars

StreamWorkerStep ==
  \/ ThreadStart
  \/ RunEntry
  \/ WhileCheck
  \/ Recv
  \/ DispatchStream
  \/ HandlerReturn
  \/ ThreadDrop
  \/ ThreadEnd

StreamNext ==
  \/ StreamWorkerStep
  \/ StubConsumer
  \/ \E k \in 1..MaxConsumers : ConsumerClone(k)
  \/ \E k \in 1..MaxConsumers : ConsumerDrop(k)
  \/ \E k \in 1..MaxConsumers : ConsumeStream(k)
  \/ StubShutdownSend
  \/ StubShutdownJoin
  \/ StubDrop

\* Producers may push without end; every handler call returns and the
\* worker thread is scheduled fairly.
StreamSpec == Init /\ [][StreamNext]_vars /\ WF_vars(StreamWorkerStep)

\* ------------------------------------------------------------------ claims

\* C1  Shutdown terminates: once a Shutdown envelope has been sent on the
\* channel, the loop begins at most (envelopes queued ahead of it + 1) further
\* iterations, and (the worker scheduled fairly, every handler call
\* returning) run returns and the thread terminates, joinable.
ShutdownTerminates ==
  /\ [](ahead >= 0 => itersAfter <= ahead + 1)
  /\ (ahead >= 0) ~> (pc = "finished")

\* A Shutdown sent behind a queued envelope, the thread finished after exactly
\* ahead + 1 further iterations.
ShutdownTerminatesWitness ==
  /\ ahead >= 1
  /\ itersAfter = ahead + 1
  /\ pc = "finished"

\* The ids of the handler.command invocations made for push number n.
Deliveries(n) == {j \in DOMAIN log : log[j].id = n}

\* Every invocation made for the i-th push carries a value equal to the
\* command pushed.
ValueKept(i) ==
  \A j \in Deliveries(pushes[i].id) : log[j].cmd = pushes[i].cmd

\* The i-th push returned Ok and reached the channel before any Shutdown.
AheadOfShutdown(i) ==
  /\ i \in DOMAIN pushes
  /\ pushes[i].ok
  /\ (shutdownId = 0 \/ pushes[i].id < shutdownId)

\* The i-th push has been handed to handler.command exactly once, unchanged.
DeliveredOnce(i) ==
  /\ i \in DOMAIN pushes
  /\ Cardinality(Deliveries(pushes[i].id)) = 1
  /\ ValueKept(i)

\* C2 as stated: every command pushed with an Ok result is handed to
\* handler.command exactly once; taken when the thread has finished.
CommandDeliveryAsStated ==
  pc = "finished" =>
    \A i \in DOMAIN pushes :
      pushes[i].ok => Cardinality(Deliveries(pushes[i].id)) = 1 /\ ValueKept(i)

\* Some command accepted ahead of any Shutdown envelope has not yet been
\* handed to handler.command.
AwaitingDelivery ==
  \E i \in DOMAIN pushes : AheadOfShutdown(i) /\ ~DeliveredOnce(i)

\* C2 amended: a command pushed with an Ok result is handed to
\* handler.command at most once, with an equal value; and whenever commands
\* that reached the channel ahead of any Shutdown envelope await delivery,
\* eventually each of them has been handed over exactly once (the worker
\* scheduled fairly, every handler call returning).
CommandDelivery ==
  /\ [](\A i \in DOMAIN pushes :
         pushes[i].ok =>
           Cardinality(Deliveries(pushes[i].id)) <= 1 /\ ValueKept(i))
  /\ AwaitingDelivery ~> ~AwaitingDelivery

\* One command delivered once, another accepted behind the Shutdown and never
\* delivered, the thread finished.
CommandDeliveryWitness ==
  /\ pc = "finished"
  /\ \E i, j \in DOMAIN pushes :
       /\ pushes[i].ok /\ Cardinality(Deliveries(pushes[i].id)) = 1
       /\ pushes[j].ok /\ Deliveries(pushes[j].id) = {}

\* C3  FIFO per producer: of two commands pushed in that order by the same
\* producer, when both have been handed to handler.command the first was
\* handed over strictly before the second.
FifoPerProducer ==
  \A i, j \in DOMAIN pushes :
    (i < j /\ pushes[i].by = pushes[j].by /\ pushes[i].ok /\ pushes[j].ok) =>
      \A a \in Deliveries(pushes[i].id), b \in Deliveries(pushes[j].id) : a < b

\* Two commands of one producer with a command of another producer pushed
\* between them, all three delivered, polls among the iterations.
FifoPerProducerWitness ==
  /\ Len(pushes) = 3
  /\ pushes[1].by = pushes[3].by
  /\ pushes[1].by # pushes[2].by
  /\ \A i \in 1..3 : Deliveries(pushes[i].id) # {}
  /\ polls >= 1

\* A handler.poll call is being made or is in progress.
Polling == pc = "poll" \/ (pc = "match" /\ res.kind = "None")

\* C4  A poll never preempts a queued envelope: whenever handler.poll is
\* invoked or in progress, every envelope waiting in the queue was enqueued
\* after the receive of that iteration began.
PollNeverPreempts ==
  Polling => \A i \in DOMAIN queue : queue[i].id > recvBegan

\* A poll in progress while envelopes that arrived after its receive began
\* wait in the queue.
PollNeverPreemptsWitness ==
  /\ pc = "poll"
  /\ Len(queue) = 2
  /\ queue[1].kind = "Cmd"
  /\ queue[2].kind = "Shutdown"

\* C5  Polling liveness: if no envelope is ever sent, handler.poll is invoked
\* again and again (the worker scheduled fairly, every handler call
\* returning).
PollingLiveness == [](nEnq = 0) => []<>(pc = "poll")

\* Nothing was ever sent and handler.poll is being invoked for at least the
\* second time.
PollingLivenessWitness ==
  /\ nEnq = 0
  /\ polls = 2
  /\ pc = "poll"

\* C6  Join guarantee: whenever WorkerStub::shutdown has returned, the worker
\* thread has terminated and its join handle has been consumed.
JoinGuarantee ==
  stub = "consumed" => pc \in {"finished", "panicked"} /\ child = "joined"

\* shutdown has returned after a clean stop that left a command undelivered.
JoinGuaranteeWitness ==
  /\ stub = "consumed"
  /\ pc = "finished"
  /\ diag = {}
  /\ queue # << >>

\* C7  Shutdown completes on the failure path: when the send of the Shutdown
\* envelope fails because the worker is gone, shutdown is not aborted, the
\* join is still made, its failure is only logged, and shutdown returns.
ShutdownCompletesOnFailure ==
  /\ [](("send" \in diag) =>
         /\ stub \in {"joining", "consumed"}
         /\ (stub = "consumed" =>
               /\ child = "joined"
               /\ joins = 1
               /\ (pc = "panicked" => "join" \in diag)))
  /\ ("send" \in diag) ~> (stub = "consumed")

\* shutdown has returned with both failures logged, after a handler panic.
ShutdownCompletesOnFailureWitness ==
  /\ stub = "consumed"
  /\ diag = {"send", "join"}
  /\ pc = "panicked"
  /\ Len(log) >= 1

\* C8  Delivery failure: a consume call returns an error exactly when the
\* receiver no longer exists, and then enqueues nothing; otherwise it returns
\* Ok and appends exactly one Envelope::Cmd(cmd) at the tail of the queue.
DeliveryFailure ==
  [][Len(pushes') = Len(pushes) + 1 =>
       LET r == pushes'[Len(pushes')]
       IN /\ r.ok <=> rxAlive
          /\ rxAlive => queue' = Append(queue, [kind |-> "Cmd", cmd |-> r.cmd, id |-> r.id])
          /\ ~rxAlive => queue' = queue]_vars

\* One push accepted into a queue the worker never drained, a later one
\* refused.
DeliveryFailureWitness ==
  /\ Len(pushes) = 2
  /\ pushes[1].ok
  /\ ~pushes[2].ok
  /\ Deliveries(pushes[1].id) = {}
  /\ ~rxAlive

\* C9  Nothing happens after Stopped: once the loop has received a Shutdown
\* envelope, that run call receives nothing more, invokes no handler method
\* and takes nothing from the queue.
NothingAfterStopped ==
  [][stopped =>
       /\ log' = log
       /\ polls' = polls
       /\ pc' \notin {"recv", "match", "command", "poll"}
       /\ Len(queue') >= Len(queue)
       /\ SubSeq(queue', 1, Len(queue)) = queue]_vars

\* The loop has stopped and the thread finished with an envelope enqueued
\* behind the Shutdown left in the queue.
NothingAfterStoppedWitness ==
  /\ stopped
  /\ pc = "finished"
  /\ \E i \in DOMAIN queue : queue[i].kind = "Cmd" /\ queue[i].id > shutdownId

\* The number of Shutdown envelopes ever placed on the channel.
ShutdownsEnqueued ==
  nEnq - Cardinality({i \in DOMAIN pushes : pushes[i].ok})

\* C10  Single shutdown: WorkerStub::shutdown runs at most once, so the stub
\* places at most one Shutdown envelope and joins at most once; once shutdown
\* has begun the stub yields no further Consumer.
SingleShutdown ==
  /\ shutdownCalls <= 1
  /\ ShutdownsEnqueued <= 1
  /\ joins <= 1
  /\ shutdownCalls >= 1 => ~ENABLED StubConsumer

\* shutdown has run once and returned, with room left for a Consumer.
SingleShutdownWitness ==
  /\ stub = "consumed"
  /\ shutdownCalls = 1
  /\ ShutdownsEnqueued = 1
  /\ joins = 1
  /\ FreeIds # {}

\* C11  Consumer independence: the stub yields a Consumer whenever asked, and
\* a step that creates, clones or drops a Consumer changes exactly that one
\* handle: the worker's state, the queue, the stub, and with them the ability
\* of every other Consumer and of the stub to send, stay as they were.
ConsumerIndependence ==
  /\ []((stub = "alive" /\ FreeIds # {}) => ENABLED StubConsumer)
  /\ [][consumers' # consumers =>
         /\ Cardinality((consumers \ consumers') \cup (consumers' \ consumers)) = 1
         /\ queue' = queue
         /\ rxAlive' = rxAlive
         /\ run' = run
         /\ stopped' = stopped
         /\ pc' = pc
         /\ stub' = stub
         /\ nEnq' = nEnq]_vars

\* The first Consumer has been dropped, the second is alive next to a running
\* worker with its command still queued, and the stub is gone.
ConsumerIndependenceWitness ==
  /\ consumers = {2}
  /\ stub = "dropped"
  /\ rxAlive
  /\ pc = "poll"
  /\ queue # << >>
  /\ Len(log) >= 1

\* C12  The shutdown/command race is decided by arrival order: a command
\* that reached the channel behind the Shutdown envelope is never handed to
\* handler.command although its push returned Ok, and when the loop has
\* received the Shutdown every command that reached the channel ahead of it
\* has been handed over.
ArrivalOrderDecides ==
  \A i \in DOMAIN pushes :
    pushes[i].ok =>
      /\ (shutdownId > 0 /\ pushes[i].id > shutdownId) =>
            Deliveries(pushes[i].id) = {}
      /\ (stopped /\ pushes[i].id < shutdownId) =>
            Cardinality(Deliveries(pushes[i].id)) = 1

\* Two producers raced the shutdown: their commands ahead of the Shutdown
\* were delivered, the one behind it was accepted and left in the queue.
ArrivalOrderDecidesWitness ==
  /\ stopped
  /\ Len(pushes) = 3
  /\ \A i \in 1..3 : pushes[i].ok
  /\ pushes[1].by # pushes[2].by
  /\ pushes[1].id < shutdownId
  /\ pushes[2].id < shutdownId
  /\ pushes[3].id > shutdownId
  /\ Len(log) = 2
  /\ Len(queue) = 1

\* C13  Handler exclusivity: no handler method is invoked before H::new()
\* has returned on the worker thread; a handler.command or handler.poll
\* invocation begins only in a step of the worker thread's match, one at a
\* time, never while another invocation is in progress and never in a step
\* of a producer or of the stub's owner.
HandlerExclusivity ==
  /\ [](pc = "spawned" => (log = << >> /\ polls = 0))
  /\ [][(\/ log' # log
         \/ polls' # polls
         \/ (pc' \in {"command", "poll"} /\ pc' # pc))
        => /\ pc = "match"
           /\ pc' \in {"command", "poll"}
           /\ Len(log') + polls' <= Len(log) + polls + 1
           /\ UNCHANGED ownerVars]_vars

\* A handler.command call is in progress while two commands pushed by
\* different producers wait in the channel.
HandlerExclusivityWitness ==
  /\ pc = "command"
  /\ Len(queue) = 2
  /\ queue[1].kind = "Cmd"
  /\ queue[2].kind = "Cmd"
  /\ Len(pushes) = 3
  /\ pushes[2].by # pushes[3].by

\* C14  No preemption of a handler call: while a handler.command or
\* handler.poll call is in progress the run flag and the loop's state do not
\* change and a Shutdown envelope enqueued meanwhile stays in the channel;
\* the run flag changes only in the iteration whose recv_timeout returned
\* the Shutdown envelope; and WorkerStub::shutdown has
\* not returned while a handler call is in progress.
NoPreemption ==
  /\ [](stub = "consumed" => pc \notin {"command", "poll"})
  /\ [][(pc \in {"command", "poll"}) =>
         (/\ run' = run
          /\ stopped' = stopped
          /\ res' = res
          /\ Len(queue') >= Len(queue)
          /\ SubSeq(queue', 1, Len(queue)) = queue
          /\ pc' \in {pc, "while", "unwinding"})]_vars
  /\ [][run' # run => (/\ pc = "match"
                       /\ res.kind = "Shutdown"
                       /\ pc' = "while")]_vars

\* WorkerStub::shutdown has sent the Shutdown and waits in join while a
\* handler.command call is still in progress, the flag still set.
NoPreemptionWitness ==
  /\ pc = "command"
  /\ stub = "joining"
  /\ run
  /\ queue # << >>
  /\ queue[Len(queue)].kind = "Shutdown"
  /\ recvBegan = 0
  /\ shutdownId > log[Len(log)].id

\* A consume call has returned an error.
SomeConsumeFailed == \E i \in DOMAIN pushes : ~pushes[i].ok

\* Every consume call made after a failed one failed too.
FailuresLast ==
  \A i, j \in DOMAIN pushes : (i < j /\ ~pushes[i].ok) => ~pushes[j].ok

\* C15 as stated: once a consume call has returned an error the worker
\* thread has terminated and every later consume call returned an error too.
DeliveryFailurePermanentAsStated ==
  SomeConsumeFailed => (pc \in {"finished", "panicked"} /\ FailuresLast)

\* C15  Delivery failure is permanent: once a consume call has returned an
\* error the Worker has been dropped and its loop has ended for good (the
\* thread has returned from the closure's body or is unwinding, and may not
\* yet have terminated); every later consume call returns an error too, no
\* further handler method is invoked, no run call begins and nothing more
\* enters or leaves the queue.
DeliveryFailurePermanent ==
  /\ [](SomeConsumeFailed =>
         (/\ ~rxAlive
          /\ pc \in {"returned", "unwinding", "finished", "panicked"}
          /\ FailuresLast))
  /\ [][SomeConsumeFailed =>
         (/\ log' = log
          /\ polls' = polls
          /\ queue' = queue
          /\ runs' = runs
          /\ rxAlive' = rxAlive)]_vars

\* A push delivered, then two pushes refused while the thread, its Worker
\* already dropped, has not yet terminated.
DeliveryFailurePermanentWitness ==
  /\ Len(pushes) = 3
  /\ pushes[1].ok
  /\ ~pushes[2].ok
  /\ ~pushes[3].ok
  /\ Len(log) = 1
  /\ pc = "returned"

\* The worker thread has not yet entered the loop of Worker::run: it is
\* about to call H::new() or Worker::run.
BeforeLoop == pc \in {"spawned", "run"}

\* The Cmd envelopes waiting in the queue are exactly the accepted pushes, in
\* push order.
AllQueued ==
  LET cmds == SelectSeq(queue, LAMBDA e : e.kind = "Cmd")
  IN /\ Len(cmds) = Len(pushes)
     /\ \A i \in DOMAIN pushes :
          /\ pushes[i].ok
          /\ cmds[i] = Cmd(pushes[i].cmd, pushes[i].id)

\* handler.command has been invoked in the order of arrival in the channel.
InPushOrder == \A j, k \in DOMAIN log : j < k => log[j].id < log[k].id

\* C16  No loss before the loop starts: while the worker thread has not yet
\* constructed the handler or entered the loop, the stub and its Consumers
\* are already usable, every consume call returns Ok and its command waits
\* in the channel; and those that are ahead of any Shutdown envelope are
\* eventually all handed to handler.command, in push order (the worker
\* scheduled fairly, H::new and every handler call returning).
NoLossBeforeLoop ==
  /\ [](BeforeLoop => (AllQueued /\ log = << >>))
  /\ []InPushOrder
  /\ (BeforeLoop /\ AwaitingDelivery) ~> ~AwaitingDelivery

\* H::new() has returned, the loop has not been entered, and three commands
\* pushed by two producers wait in the channel.
NoLossBeforeLoopWitness ==
  /\ pc = "run"
  /\ runs = 0
  /\ Len(queue) = 3
  /\ \A i \in 1..3 : queue[i].kind = "Cmd"
  /\ Len(pushes) = 3
  /\ pushes[1].by # pushes[3].by

\* The envelopes in the queue are the most recently enqueued ones, in
\* arrival order: everything enqueued before them has been received.
QueueIsTail ==
  \A i \in DOMAIN queue : queue[i].id = nEnq - Len(queue) + i

\* Every command received so far, in whichever run call, has been handed to
\* handler.command exactly once.
ReceivedDelivered ==
  \A i \in DOMAIN pushes :
    (/\ pushes[i].ok
     /\ pushes[i].id <= nEnq - Len(queue)
     /\ res.id # pushes[i].id)
    => (Cardinality(Deliveries(pushes[i].id)) = 1 /\ ValueKept(i))

\* C17  Every call to Worker::run starts Running whatever the flag was: the
\* entry of run sets the flag and touches neither the queue nor the handler,
\* also after a Worker::shutdown() call or a previous run call that ended on
\* a Shutdown envelope; a call leaves the loop only when it has itself
\* received a Shutdown envelope; and across calls the envelopes are received
\* from the same queue in arrival order, none skipped and none repeated.
RunRestarts ==
  /\ []((pc = "while" /\ ~run) => stopped)
  /\ [](pc = "returned" => stopped)
  /\ [](QueueIsTail /\ ReceivedDelivered /\ InPushOrder)
  /\ [][(pc = "run" /\ pc' # "run") =>
         (/\ run'
          /\ pc' = "while"
          /\ queue' = queue
          /\ log' = log
          /\ polls' = polls)]_vars

\* The second call of run is handling a command that was enqueued behind
\* the Shutdown envelope that ended the first call, which had handled a
\* command enqueued ahead of it.
RunRestartsWitness ==
  /\ runs = 2
  /\ pc = "command"
  /\ run
  /\ shutdownId > 0
  /\ Len(log) = 2
  /\ log[1].id < shutdownId
  /\ log[2].id > shutdownId

\* Worker::run is executing.
InRun == pc \in {"while", "recv", "match", "command", "poll"}

\* C18  The channel is never closed for the receiver while the loop runs:
\* whenever Worker::run is executing the Worker exists and at least one
\* sending half is alive, and recv_timeout never returns the closed-channel
\* error, so the catch-all arm of the match is never taken.
NeverClosed ==
  /\ InRun => (rxAlive /\ LiveSenders >= 1)
  /\ res.kind \in {"Empty", "Cmd", "Shutdown", "None"}
  /\ pc = "match" => res.kind \in {"Cmd", "Shutdown", "None"}

\* The stub and every Consumer have been dropped after a command was
\* delivered; the loop still runs and its receive has just timed out.
NeverClosedWitness ==
  /\ stub = "dropped"
  /\ consumers = {}
  /\ Len(log) >= 1
  /\ queue = << >>
  /\ pc = "match"
  /\ res.kind = "None"
  /\ polls = 2

\* The worker thread has left the loop of Worker::run by its condition.
LoopLeft == pc \in {"returned", "finished"}

\* C19 as stated: a thread that has left the loop received a Shutdown
\* envelope, and if no Shutdown envelope is ever sent the thread never
\* terminates and invokes handler.poll again and again, forever.
StoppedOnlyByShutdownAsStated ==
  /\ [](LoopLeft => (stopped /\ shutdownId > 0))
  /\ [](shutdownId = 0) => ([](~LoopLeft) /\ []<>(pc = "poll"))

\* C19  Stopped is reachable only through a Shutdown envelope: the run flag
\* is cleared only by the iteration that received Envelope::Shutdown, and a
\* thread that has left the loop received one. If no Shutdown envelope is
\* ever sent the thread never terminates and keeps invoking its handler
\* forever (the worker scheduled fairly, every handler call returning):
\* handler.poll again and again once every Consumer has been dropped,
\* while commands that never stop arriving can keep it from polling.
StoppedOnlyByShutdown ==
  /\ [](LoopLeft => (stopped /\ shutdownId > 0))
  /\ [][(run /\ ~run') => (pc = "match" /\ res.kind = "Shutdown")]_vars
  /\ [](shutdownId = 0) =>
       ([](~LoopLeft) /\ []<>(pc \in {"command", "poll"}))
  /\ ([](shutdownId = 0) /\ <>[](consumers = {})) => []<>(pc = "poll")

\* The stub and every Consumer have been dropped without a shutdown; the
\* queue is drained and the loop is polling, not for the first time.
StoppedOnlyByShutdownWitness ==
  /\ stub = "dropped"
  /\ consumers = {}
  /\ shutdownId = 0
  /\ queue = << >>
  /\ pc = "poll"
  /\ polls = 2
  /\ run

TypeOK ==
  /\ rxAlive \in BOOLEAN
  /\ run \in BOOLEAN
  /\ pc \in {"spawned", "run", "while", "recv", "match", "command", "poll",
             "returned", "unwinding", "finished", "panicked"}
  /\ stub \in {"alive", "joining", "consumed", "dropped", "aborted"}
  /\ child \in {"joinable", "joined", "detached"}
  /\ consumers \subseteq 1..MaxConsumers
  /\ Len(pushes) <= MaxPush
  /\ polls \in 0..2
  /\ runs \in 0..2
====
